---------------------------- MODULE Spec2Model ----------------------------
(***************************************************************************)
(* A model of the AutoForge web layer (src/src/autoforge/web_app.py): the  *)
(* job registry active_jobs, the HTTP handlers upload / start / status /   *)
(* cancel, and the background worker run_autoforge_optimization with its   *)
(* ProgressCallback.  The FilamentOptimizer the worker drives is not part  *)
(* of the sources at hand; its step() is modelled from the specification   *)
(* (section 4.3) and marked as such.                                       *)
(*                                                                         *)
(* Every worker action is one atomic step of the worker thread between two *)
(* points where another thread can observe or change active_jobs.          *)
(***************************************************************************)
EXTENDS Integers, Naturals, Sequences, FiniteSets, TLC

(***************************************************************************)
(* Bounds of the model.                                                    *)
(***************************************************************************)
MaxJobs == 1
MaxThreads == 2
MaxIter == 2
MaxLoopIter == 5
MaxOptIter == 3
MaxLoss == 1
MaxEarly == 2
MaxLayers == 1
MaxColors == 2
MaxSwaps == 1
MaxDt == 2
MaxClock == 6

(***************************************************************************)
(* Program constants.  Time is counted in ticks of 0.25 s, so that the    *)
(* 0.5 s update_interval of ProgressCallback is 2 ticks.                   *)
(***************************************************************************)
update_interval == 2
PreviewEvery == 50

JobIds == 1..MaxJobs
Threads == 1..MaxThreads
Losses == 0..MaxLoss
Dts == 0..MaxDt
\* "no loss recorded yet": larger than every loss
NoLoss == MaxLoss + 1

VARIABLES
    active_jobs,   \* the registry: job id -> job record (a function on the uploaded ids)
    w,             \* worker threads: thread id -> the thread's position and locals
    clock,         \* time.time(), in ticks
    response,      \* the last HTTP response sent
    events,        \* the socketio events emitted so far, as <<name, job>>
    g              \* history per worker thread (not program state)

vars == <<active_jobs, w, clock, response, events, g>>

Terminal == {"completed", "failed", "cancelled"}

(***************************************************************************)
(* Optional values: None is the empty set, a present value v is {v}.       *)
(***************************************************************************)
None == {}
Some(v) == {v}

\* upload_files: the record stored for a new job (the absent keys
\* 'cancelled', 'params', 'outputs', 'error' read as False / None)
NewJob(j) ==
    [id |-> j, status |-> "uploaded", progress |-> 0, cancelled |-> FALSE,
     params |-> None, outputs |-> None, error |-> "None", iteration |-> 0]

\* the optimizer as constructed: nothing evaluated yet
NewOptimizer ==
    [num_steps |-> 0, best_loss |-> NoLoss, no_improve |-> 0, converged |-> FALSE,
     best_colors |-> 0, best_swaps |-> 0]

IdleThread ==
    [pc |-> "idle", job |-> 0, iterations |-> 0, early_stopping |-> 0,
     perform_pruning |-> FALSE, pruning_max_colors |-> 0, pruning_max_swaps |-> 0,
     min_layers |-> 0, max_layers |-> 0,
     i |-> 0, loss |-> 0, last_update |-> 0, error |-> "None", opt |-> NewOptimizer,
     project_file |-> "None"]

\* lateSteps: the step() calls made with the job's cancel flag set;
\* flagAtBoundary: the flag as it was when the loop last went on to a step;
\* postConverged: a step() call was made on a converged optimizer;
\* emitted, lastEmit, lastIter, gap: the progress events sent, the time and
\* the iteration of the last one and the time between the last two;
\* lastPreview: the last event carried a preview image;
\* lastLoss: the loss the last event carried;
\* exported_*: the solution written to the output files;
\* users: the threads that called step() or an accessor on the optimizer
\* this thread constructed; calls: the step() calls this thread made;
\* stepLoss: the loss its last step() returned
NoHistory ==
    [lateSteps |-> 0, flagAtBoundary |-> FALSE, postConverged |-> FALSE,
     emitted |-> 0, lastEmit |-> 0, lastIter |-> 0, lastPreview |-> FALSE, gap |-> 0,
     lastLoss |-> 0, exported_colors |-> 0, exported_swaps |-> 0,
     users |-> {}, calls |-> 0, stepLoss |-> 0]

Init ==
    /\ active_jobs = <<>>
    /\ w = [t \in Threads |-> IdleThread]
    /\ clock = update_interval
    /\ response = [code |-> 0, msg |-> "none"]
    /\ events = {}
    /\ g = [t \in Threads |-> NoHistory]


(***************************************************************************)
(* The HTTP handlers.                                                      *)
(***************************************************************************)

\* a JSON answer: the HTTP code and its message; the body of a status
\* answer is StatusBody of the state the answer is sent in
Reply(code, msg) == [code |-> code, msg |-> msg]

\* POST /api/upload.  filesOk: both files present, named, with an allowed
\* extension; otherwise the handler answers 400 and stores nothing.
\* The job id is a fresh uuid4.
upload_files(filesOk) ==
    /\ IF ~filesOk
         THEN /\ response' = Reply(400, "Invalid upload")
              /\ UNCHANGED active_jobs
         ELSE \E j \in JobIds \ DOMAIN active_jobs :
                /\ active_jobs' = active_jobs @@ (j :> NewJob(j))
                /\ response' = Reply(200, "Files uploaded successfully")
    /\ UNCHANGED <<w, clock, events, g>>

\* the thread object the next threading.Thread(...) call creates
NewThread == CHOOSE t \in Threads :
                 /\ w[t].pc = "idle"
                 /\ \A u \in Threads : w[u].pc = "idle" => t <= u

\* the process can still create a thread
CanSpawn(pool) == \E t \in pool : w[t].pc = "idle"

\* a start handler that looks the job up but not at its status
start_optimization_NoStatusCheck(j, data, pool) ==
    /\ IF j \notin DOMAIN active_jobs
         THEN /\ response' = Reply(400, "Invalid job ID")
              /\ UNCHANGED <<active_jobs, w>>
         ELSE /\ CanSpawn(pool)
              /\ active_jobs' = [active_jobs EXCEPT ![j].params = Some(data)]
              /\ w' = [w EXCEPT ![NewThread] =
                          [IdleThread EXCEPT
                              !.pc = "spawned", !.job = j,
                              !.iterations = data.iterations,
                              !.early_stopping = data.early_stopping,
                              !.perform_pruning = data.perform_pruning,
                              !.pruning_max_colors = data.pruning_max_colors,
                              !.pruning_max_swaps = data.pruning_max_swaps,
                              !.min_layers = data.min_layers,
                              !.max_layers = data.max_layers]]
              /\ response' = Reply(200, "Optimization started")
    /\ UNCHANGED <<clock, events, g>>

\* POST /api/start with body data (the options the model follows; the
\* handler copies every option without validating it).
start_optimization(j, data, pool) ==
    /\ IF j \notin DOMAIN active_jobs
         THEN /\ response' = Reply(400, "Invalid job ID")
              /\ UNCHANGED <<active_jobs, w>>
         ELSE IF active_jobs[j].status # "uploaded"
         THEN /\ response' = Reply(400, "Job already started or completed")
              /\ UNCHANGED <<active_jobs, w>>
         ELSE /\ CanSpawn(pool)
              /\ active_jobs' = [active_jobs EXCEPT ![j].params = Some(data)]
              /\ w' = [w EXCEPT ![NewThread] =
                          [IdleThread EXCEPT
                              !.pc = "spawned", !.job = j,
                              !.iterations = data.iterations,
                              !.early_stopping = data.early_stopping,
                              !.perform_pruning = data.perform_pruning,
                              !.pruning_max_colors = data.pruning_max_colors,
                              !.pruning_max_swaps = data.pruning_max_swaps,
                              !.min_layers = data.min_layers,
                              !.max_layers = data.max_layers]]
              /\ response' = Reply(200, "Optimization started")
    /\ UNCHANGED <<clock, events, g>>

\* the body of the answer of GET /api/status/<job_id>
StatusBody(j) ==
    [job_id |-> j,
     status |-> active_jobs[j].status,
     progress |-> active_jobs[j].progress,
     outputs |-> active_jobs[j].outputs,
     error |-> active_jobs[j].error]

\* GET /api/status/<job_id>
get_status(j) ==
    /\ response' = IF j \notin DOMAIN active_jobs
                     THEN Reply(404, "Job not found")
                     ELSE Reply(200, "status")
    /\ UNCHANGED <<active_jobs, w, clock, events, g>>

\* POST /api/cancel/<job_id>: no look at the job's status
cancel_job(j) ==
    /\ IF j \notin DOMAIN active_jobs
         THEN /\ response' = Reply(404, "Job not found")
              /\ UNCHANGED active_jobs
         ELSE /\ active_jobs' = [active_jobs EXCEPT ![j].cancelled = TRUE,
                                                    ![j].status = "cancelled"]
              /\ response' = Reply(200, "Job cancelled")
    /\ UNCHANGED <<w, clock, events, g>>

(***************************************************************************)
(* FilamentOptimizer, from the specification (section 4.3): its sources    *)
(* are not at hand.                                                        *)
(***************************************************************************)

\* the constructor rejects an out-of-range configuration (ConfigError)
ConfigValid(min_layers, max_layers) == min_layers <= max_layers

\* a step that records the latest discretized evaluation as the best one
OptimizerStep_Latest(opt, loss, colors, swaps, early_stopping) ==
    LET improved == loss < opt.best_loss
        stale == IF improved THEN 0 ELSE opt.no_improve + 1
    IN  [num_steps |-> opt.num_steps + 1,
         best_loss |-> loss,
         no_improve |-> stale,
         converged |-> opt.converged \/ stale >= early_stopping,
         best_colors |-> colors,
         best_swaps |-> swaps]

\* one successful step(): loss is the loss of the discretized evaluation,
\* colors and swaps describe the discretized solution evaluated.  The best
\* solution is replaced on a strictly lower loss; after early_stopping
\* steps without improvement the optimizer is marked converged.
OptimizerStep(opt, loss, colors, swaps, early_stopping) ==
    LET improved == loss < opt.best_loss
        stale == IF improved THEN 0 ELSE opt.no_improve + 1
    IN  [num_steps |-> opt.num_steps + 1,
         best_loss |-> IF improved THEN loss ELSE opt.best_loss,
         no_improve |-> stale,
         converged |-> opt.converged \/ stale >= early_stopping,
         best_colors |-> IF improved THEN colors ELSE opt.best_colors,
         best_swaps |-> IF improved THEN swaps ELSE opt.best_swaps]

(***************************************************************************)
(* ProgressCallback.                                                       *)
(***************************************************************************)

\* Throttled with the interval taken in the wrong unit (as milliseconds)
Throttled_WrongUnit(now, last_update, iteration, total_iterations) ==
    /\ now - last_update < update_interval \div 1000
    /\ iteration < total_iterations - 1

\* the time test alone, without the exception for the last iterations
Throttled_NoLastException(now, last_update, iteration, total_iterations) ==
    now - last_update < update_interval

\* update(): the early return
Throttled(now, last_update, iteration, total_iterations) ==
    /\ now - last_update < update_interval
    /\ iteration < total_iterations - 1

\* update(): progress_data['progress'], int((iteration / total) * 100)
ProgressOf(iteration, total_iterations) == (iteration * 100) \div total_iterations

\* the loop's choice of sending a preview image with the update
WithPreview(i, iterations) == i % PreviewEvery = 0 \/ i = iterations - 1

(***************************************************************************)
(* The worker thread, run_autoforge_optimization.                          *)
(***************************************************************************)

\* raise: control goes to the except clause with str(e) = msg
Raise(t, msg) == [w[t] EXCEPT !.pc = "except", !.error = msg]

\* thread start up to the job_started event
WorkerBegin(t) ==
    /\ w[t].pc = "spawned"
    /\ active_jobs' = [active_jobs EXCEPT ![w[t].job].status = "running"]
    /\ events' = events \cup {<<"job_started", w[t].job>>}
    /\ w' = [w EXCEPT ![t].pc = "init"]
    /\ UNCHANGED <<clock, response, g>>

\* loading the materials and the image, the height map initialisation, the
\* optimizer and the ProgressCallback; any of the loads may raise (ioOk)
WorkerInit(t, ioOk) ==
    /\ w[t].pc = "init"
    /\ IF ~ioOk
         THEN w' = [w EXCEPT ![t] = Raise(t, "load error")]
         ELSE IF ~ConfigValid(w[t].min_layers, w[t].max_layers)
         THEN w' = [w EXCEPT ![t] = Raise(t, "ConfigError")]
         ELSE w' = [w EXCEPT ![t].pc = "check", ![t].i = 0,
                             ![t].opt = NewOptimizer, ![t].last_update = 0]
    /\ UNCHANGED <<active_jobs, clock, response, events, g>>

\* LoopCheck with a loop bound that is off by one
LoopCheck_OffByOne(t) ==
    /\ w[t].pc = "check"
    /\ IF w[t].i > w[t].iterations
         THEN /\ w' = [w EXCEPT ![t].pc = "outputs"]
              /\ UNCHANGED g
         ELSE IF active_jobs[w[t].job].cancelled
         THEN /\ w' = [w EXCEPT ![t] = Raise(t, "Job cancelled by user")]
              /\ UNCHANGED g
         ELSE /\ w' = [w EXCEPT ![t].pc = "step"]
              /\ g' = [g EXCEPT ![t].flagAtBoundary = active_jobs[w[t].job].cancelled]
    /\ UNCHANGED <<active_jobs, clock, response, events>>

\* LoopCheck without the poll of the cancel flag
LoopCheck_NoPoll(t) ==
    /\ w[t].pc = "check"
    /\ IF w[t].i >= w[t].iterations
         THEN /\ w' = [w EXCEPT ![t].pc = "outputs"]
              /\ UNCHANGED g
         ELSE /\ w' = [w EXCEPT ![t].pc = "step"]
              /\ g' = [g EXCEPT ![t].flagAtBoundary = active_jobs[w[t].job].cancelled]
    /\ UNCHANGED <<active_jobs, clock, response, events>>

\* the head of the for loop and the poll of the cancel flag
LoopCheck(t) ==
    /\ w[t].pc = "check"
    /\ IF w[t].i >= w[t].iterations
         THEN /\ w' = [w EXCEPT ![t].pc = "outputs"]
              /\ UNCHANGED g
         ELSE IF active_jobs[w[t].job].cancelled
         THEN /\ w' = [w EXCEPT ![t] = Raise(t, "Job cancelled by user")]
              /\ UNCHANGED g
         ELSE /\ w' = [w EXCEPT ![t].pc = "step"]
              /\ g' = [g EXCEPT ![t].flagAtBoundary = active_jobs[w[t].job].cancelled]
    /\ UNCHANGED <<active_jobs, clock, response, events>>

\* the thread whose optimizer a job-wide optimizer would be: the first
\* worker of the job that has constructed one
FirstOptimizerOf(j) ==
    CHOOSE o \in Threads :
        /\ w[o].job = j /\ w[o].pc \notin {"idle", "spawned", "init"}
        /\ \A u \in Threads :
              (w[u].job = j /\ w[u].pc \notin {"idle", "spawned", "init"}) => o <= u

\* Step on an optimizer kept once per job instead of once per worker
Step_SharedOptimizer(t, stepOk, loss, colors, swaps) ==
    /\ w[t].pc = "step"
    /\ LET o == FirstOptimizerOf(w[t].job)
           stepped == OptimizerStep(w[o].opt, loss, colors, swaps, w[t].early_stopping)
       IN /\ g' = [g EXCEPT ![o].users = @ \cup {t}, ![t].calls = @ + 1,
                            ![t].stepLoss = IF stepOk THEN loss ELSE @]
          /\ IF ~stepOk
               THEN w' = [w EXCEPT ![t] = Raise(t, "step error")]
               ELSE w' = [[w EXCEPT ![o].opt = stepped]
                             EXCEPT ![t].pc = "update", ![t].loss = loss]
    /\ UNCHANGED <<active_jobs, clock, response, events>>

\* Step whose result is not assigned: the loop keeps its previous loss
Step_StaleLoss(t, stepOk, loss, colors, swaps) ==
    /\ w[t].pc = "step"
    /\ LET late == active_jobs[w[t].job].cancelled
       IN /\ g' = [g EXCEPT
                      ![t].lateSteps = IF late THEN @ + 1 ELSE @,
                      ![t].postConverged = @ \/ w[t].opt.converged,
                      ![t].users = @ \cup {t},
                      ![t].calls = @ + 1,
                      ![t].stepLoss = IF stepOk THEN loss ELSE @]
          /\ IF ~stepOk
               THEN w' = [w EXCEPT ![t] = Raise(t, "step error")]
               ELSE w' = [w EXCEPT
                            ![t].pc = "update",
                            ![t].opt = OptimizerStep(w[t].opt, loss, colors, swaps,
                                                     w[t].early_stopping)]
    /\ UNCHANGED <<active_jobs, clock, response, events>>

\* loss = optimizer.step(); the step either raises (stepOk false: a NaN
\* loss, a device error) or returns its loss
Step(t, stepOk, loss, colors, swaps) ==
    /\ w[t].pc = "step"
    /\ LET late == active_jobs[w[t].job].cancelled
       IN /\ g' = [g EXCEPT
                      ![t].lateSteps = IF late THEN @ + 1 ELSE @,
                      ![t].postConverged = @ \/ w[t].opt.converged,
                      ![t].users = @ \cup {t},
                      ![t].calls = @ + 1,
                      ![t].stepLoss = IF stepOk THEN loss ELSE @]
          /\ IF ~stepOk
               THEN w' = [w EXCEPT ![t] = Raise(t, "step error")]
               ELSE w' = [w EXCEPT
                            ![t].pc = "update", ![t].loss = loss,
                            ![t].opt = OptimizerStep(w[t].opt, loss, colors, swaps,
                                                     w[t].early_stopping)]
    /\ UNCHANGED <<active_jobs, clock, response, events>>

\* progress_callback.update(i + 1, iterations, loss[, preview]) and the end
\* of the loop body.  dt is the time passed since the clock was last read;
\* cbOk false: cv2.imencode or socketio.emit raises inside update().
ProgressUpdate(t, dt, cbOk) ==
    /\ w[t].pc = "update"
    /\ clock + dt <= MaxClock
    /\ clock' = clock + dt
    /\ LET now == clock + dt
           iteration == w[t].i + 1
           total == w[t].iterations
           j == w[t].job
           \* optimizer.get_composite_image_disc() for the preview
           h == [g[t] EXCEPT !.users = IF WithPreview(w[t].i, total)
                                         THEN @ \cup {t} ELSE @]
       IN IF Throttled(now, w[t].last_update, iteration, total)
            THEN /\ w' = [w EXCEPT ![t].pc = "check", ![t].i = @ + 1]
                 /\ g' = [g EXCEPT ![t] = h]
                 /\ UNCHANGED <<active_jobs, events>>
            ELSE IF ~cbOk
            THEN /\ w' = [w EXCEPT ![t] = [Raise(t, "callback error")
                                             EXCEPT !.last_update = now]]
                 /\ g' = [g EXCEPT ![t] = h]
                 /\ UNCHANGED <<active_jobs, events>>
            ELSE /\ w' = [w EXCEPT ![t].pc = "check", ![t].i = @ + 1,
                                   ![t].last_update = now]
                 /\ events' = events \cup {<<"progress", j>>}
                 /\ active_jobs' = [active_jobs EXCEPT
                                      ![j].progress = ProgressOf(iteration, total),
                                      ![j].iteration = iteration]
                 /\ g' = [g EXCEPT ![t] = [h EXCEPT
                                   !.emitted = @ + 1,
                                   !.gap = now - g[t].lastEmit,
                                   !.lastEmit = now,
                                   !.lastIter = iteration,
                                   !.lastLoss = w[t].loss,
                                   !.lastPreview = WithPreview(w[t].i, total)]]
    /\ UNCHANGED response

\* after the loop: the final image and height map, the files written from
\* optimizer.get_best_discrete_solution().  ioOk false: one of the writers
\* raises; projectOk false: generate_project_file raised (caught, a warning)
\* and project.json does not exist.
GenerateOutputs(t, ioOk, projectOk) ==
    /\ w[t].pc = "outputs"
    /\ IF ~ioOk
         THEN /\ w' = [w EXCEPT ![t] = Raise(t, "output error")]
              /\ UNCHANGED g
         ELSE /\ w' = [w EXCEPT ![t].pc = "set_status",
                                ![t].project_file =
                                    IF projectOk THEN "project.json" ELSE "None"]
              /\ g' = [g EXCEPT ![t].exported_colors = w[t].opt.best_colors,
                                ![t].exported_swaps = w[t].opt.best_swaps,
                                ![t].users = @ \cup {t}]
    /\ UNCHANGED <<active_jobs, clock, response, events>>

\* active_jobs[job_id]['status'] = 'completed'
SetCompletedStatus(t) ==
    /\ w[t].pc = "set_status"
    /\ active_jobs' = [active_jobs EXCEPT ![w[t].job].status = "completed"]
    /\ w' = [w EXCEPT ![t].pc = "set_progress"]
    /\ UNCHANGED <<clock, response, events, g>>

\* active_jobs[job_id]['progress'] = 100
SetCompletedProgress(t) ==
    /\ w[t].pc = "set_progress"
    /\ active_jobs' = [active_jobs EXCEPT ![w[t].job].progress = 100]
    /\ w' = [w EXCEPT ![t].pc = "set_outputs"]
    /\ UNCHANGED <<clock, response, events, g>>

\* active_jobs[job_id]['outputs'] = {...} and the job_completed event
SetCompletedOutputs(t) ==
    /\ w[t].pc = "set_outputs"
    /\ active_jobs' = [active_jobs EXCEPT ![w[t].job].outputs =
                          Some([discretized_image |-> "discretized.png",
                                stl_file |-> "model.stl",
                                swap_instructions |-> "swap_instructions.txt",
                                project_file |-> w[t].project_file])]
    /\ events' = events \cup {<<"job_completed", w[t].job>>}
    /\ w' = [w EXCEPT ![t].pc = "done"]
    /\ UNCHANGED <<clock, response, g>>

\* HandleException that marks the job failed without recording the error
\* or emitting job_failed
HandleException_Silent(t) ==
    /\ w[t].pc = "except"
    /\ active_jobs' = [active_jobs EXCEPT ![w[t].job].status = "failed"]
    /\ w' = [w EXCEPT ![t].pc = "done"]
    /\ UNCHANGED <<clock, response, events, g>>

\* the except clause: every exception of the try block, the cancellation
\* included, ends here
HandleException(t) ==
    /\ w[t].pc = "except"
    /\ active_jobs' = [active_jobs EXCEPT ![w[t].job].status = "failed",
                                          ![w[t].job].error = w[t].error]
    /\ events' = events \cup {<<"job_failed", w[t].job>>}
    /\ w' = [w EXCEPT ![t].pc = "done"]
    /\ UNCHANGED <<clock, response, g>>

(***************************************************************************)
(* The specifications.  Each draws the requests' options and the           *)
(* optimizer's outcomes from the sets it is given.                         *)
(***************************************************************************)

\* the bodies of POST /api/start
StartData(iters, earlies, prunings, minLayers) ==
    [iterations : iters,
     early_stopping : earlies,
     perform_pruning : prunings,
     pruning_max_colors : {1},
     pruning_max_swaps : {0},
     min_layers : minLayers,
     max_layers : {MaxLayers}]

Worker(t, losses, colors, swaps, dts, flags) ==
    \/ WorkerBegin(t)
    \/ \E ioOk \in flags : WorkerInit(t, ioOk)
    \/ LoopCheck(t)
    \/ \E stepOk \in BOOLEAN, loss \in losses, c \in colors, s \in swaps :
          Step(t, stepOk, loss, c, s)
    \/ \E dt \in dts, cbOk \in BOOLEAN : ProgressUpdate(t, dt, cbOk)
    \/ \E ioOk \in BOOLEAN, projectOk \in flags : GenerateOutputs(t, ioOk, projectOk)
    \/ SetCompletedStatus(t)
    \/ SetCompletedProgress(t)
    \/ SetCompletedOutputs(t)
    \/ HandleException(t)

Requests(data, pool) ==
    \/ \E filesOk \in BOOLEAN : upload_files(filesOk)
    \/ \E j \in JobIds, d \in data : start_optimization(j, d, pool)
    \/ \E j \in JobIds : get_status(j)
    \/ \E j \in JobIds : cancel_job(j)

\* The web application: concurrent requests and up to MaxThreads worker
\* threads.  With at most MaxIter <= 3 iterations no update is throttled
\* (the first update and the last two always pass), so time stands still.
Next ==
    \/ Requests(StartData(1..MaxIter, {MaxEarly}, {FALSE}, {0, MaxLayers + 1}), Threads)
    \/ \E t \in Threads : Worker(t, {0}, {1}, {0}, {0}, BOOLEAN)

Spec == Init /\ [][Next]_vars

\* One worker thread with up to MaxLoopIter iterations, the requests that
\* reach it and the passing of time: the loop, its cancellation, its
\* failures and the throttle of the updates.
NextLoop ==
    \/ Requests(StartData(1..MaxLoopIter, {MaxEarly}, {FALSE}, {0}), {1})
    \/ Worker(1, {0}, {1}, {0}, Dts, {TRUE})

SpecLoop == Init /\ [][NextLoop]_vars

\* SpecLoop with a worker thread that is scheduled as long as it can run:
\* every statement of the worker terminates and the thread is not starved.
FairLoop ==
    SpecLoop /\ WF_vars(Worker(1, {0}, {1}, {0}, Dts, {TRUE}))

\* One worker thread and every outcome of the optimizer's steps: early
\* stopping and the solution exported.
NextOptimizer ==
    \/ Requests(StartData(1..MaxOptIter, 1..MaxEarly, BOOLEAN, {0}), {1})
    \/ Worker(1, Losses, 1..MaxColors, 0..MaxSwaps, {0}, {TRUE})

SpecOptimizer == Init /\ [][NextOptimizer]_vars

\* One worker thread and every loss a step can return, with one shape of
\* solution and a frozen clock: the losses reported and recorded.
NextLoss ==
    \/ Requests(StartData(1..MaxOptIter, {MaxEarly}, {FALSE}, {0}), {1})
    \/ Worker(1, Losses, {1}, {0}, {0}, {TRUE})

SpecLoss == Init /\ [][NextLoss]_vars

(***************************************************************************)
(* The claims.                                                             *)
(***************************************************************************)

JobOf(t) == active_jobs[w[t].job]
Halted(t) == w[t].pc \in {"except", "done"}

\* C1: the cancel flag is polled at every iteration boundary: a loop makes
\* at most one step() call after the flag of its job is set (the step it had
\* already gone on to), and never goes on to a step at a boundary where the
\* flag is set.
C1_CancelPolledAtEveryBoundary ==
    \A t \in Threads :
        /\ g[t].lateSteps <= 1
        /\ w[t].pc = "step" => ~g[t].flagAtBoundary

\* C1, its case: the flag was set after the loop went on to a step that was
\* not the last; that one step ran, and the next boundary halted the loop.
C1_Witness ==
    \E t \in Threads :
        /\ w[t].pc = "done"
        /\ w[t].error = "Job cancelled by user"
        /\ g[t].lateSteps = 1
        /\ w[t].i >= 1
        /\ w[t].i < w[t].iterations

\* C2: a loop stopped by a cancel request leaves its job in the cancelled
\* state, not in the failed state, and without an error.
C2_CancelIsNotFailure ==
    \A t \in Threads :
        (w[t].pc = "done" /\ w[t].error = "Job cancelled by user")
            => (JobOf(t).status = "cancelled" /\ JobOf(t).error = "None")

\* C3: once a worker has ended with at least one successful step, whatever
\* the terminal state of its job, a status answer carries the results.
C3_ResultsAfterAnyStep ==
    \A t \in Threads :
        (w[t].pc = "done" /\ w[t].opt.num_steps >= 1 /\ JobOf(t).status \in Terminal)
            => StatusBody(w[t].job).outputs # None

\* C4: an exception raised inside ProgressCallback.update never takes the
\* worker out of its loop into the failure path.
C4_CallbackFailureDoesNotAbort ==
    \A t \in Threads : ~(Halted(t) /\ w[t].error = "callback error")

C6_EarlyStoppingHalts ==
    \A t \in Threads : ~g[t].postConverged

\* C7: the status of a job becomes running only from uploaded, and a
\* terminal status never changes again.
C7_Lifecycle ==
    [][\A j \in DOMAIN active_jobs :
          /\ active_jobs[j].status \in Terminal
                => active_jobs'[j].status = active_jobs[j].status
          /\ (active_jobs'[j].status = "running" /\ active_jobs[j].status # "running")
                => active_jobs[j].status = "uploaded"]_vars

\* C8: a job whose start request carried min_layers > max_layers is never
\* accepted: no worker is created for it and it is never running.
C8_InvalidConfigRejected ==
    /\ \A j \in DOMAIN active_jobs : \A p \in active_jobs[j].params :
          ~ConfigValid(p.min_layers, p.max_layers)
              => active_jobs[j].status # "running"
    /\ \A t \in Threads :
          w[t].pc # "idle" => ConfigValid(w[t].min_layers, w[t].max_layers)

\* C9: between two progress events of one callback, the later for an
\* iteration below total_iterations - 1, at least update_interval passed;
\* and a call of update() for such an iteration made sooner than that after
\* the last event emits nothing and leaves last_update and the job alone.
C9_ThrottledByTime ==
    /\ [](\A t \in Threads :
            (g[t].emitted >= 2 /\ g[t].lastIter < w[t].iterations - 1)
                => g[t].gap >= update_interval)
    /\ [][\A t \in Threads :
            (/\ w[t].pc = "update"
             /\ w'[t].pc # "update"
             /\ w[t].i + 1 < w[t].iterations - 1
             /\ clock' - w[t].last_update < update_interval)
                => /\ w'[t].last_update = w[t].last_update
                   /\ active_jobs' = active_jobs
                   /\ events' = events
                   /\ g'[t].emitted = g[t].emitted]_vars

\* C9, its case: two events for iterations below total_iterations - 1 were
\* emitted, and one call in between was dropped by the throttle.
C9_Witness ==
    \E t \in Threads :
        /\ g[t].emitted >= 2
        /\ g[t].lastIter < w[t].iterations - 1
        /\ g[t].emitted < g[t].lastIter

\* C10: with perform_pruning set, the solution written to the output files
\* has at most pruning_max_colors materials and pruning_max_swaps swaps.
C10_ExportIsPruned ==
    \A t \in Threads :
        (w[t].perform_pruning /\ w[t].pc \in {"set_status", "set_progress", "set_outputs", "done"}
            /\ w[t].error = "None")
            => /\ g[t].exported_colors <= w[t].pruning_max_colors
               /\ g[t].exported_swaps <= w[t].pruning_max_swaps

\* C11: the optimizer a worker constructed is used (step() and the
\* accessors) by that worker only, whatever requests arrive.
C11_OptimizerOwnedByOneThread ==
    \A o \in Threads : g[o].users \subseteq {o}

\* C11, its case: two workers of the same job, started by two racing start
\* requests, have each made step() calls, each on its own optimizer.
C11_Witness ==
    \E t \in Threads, u \in Threads :
        /\ t # u
        /\ w[t].job = w[u].job
        /\ g[t].users = {t} /\ g[u].users = {u}
        /\ w[t].opt.num_steps >= 1 /\ w[u].opt.num_steps >= 1

\* C12: a worker makes at most `iterations` step() calls, and under a
\* fair scheduling of the worker every started job reaches a status written
\* by the worker at its end, completed or failed.
C12_LoopBoundedAndTerminates ==
    /\ [](\A t \in Threads : g[t].calls <= w[t].iterations)
    /\ \A t \in Threads :
          (w[t].pc = "spawned")
              ~> (w[t].pc # "idle" /\ JobOf(t).status \in {"completed", "failed"})

\* C12, its case: a worker ran all of the largest number of iterations and
\* its job is completed.
C12_Witness ==
    \E t \in Threads :
        /\ w[t].pc = "done"
        /\ w[t].iterations = MaxLoopIter
        /\ g[t].calls = w[t].iterations
        /\ JobOf(t).status = "completed"

\* C13: a progress event for iteration k is sent when the worker has made
\* exactly k step() calls, all returned (it is between step k and step
\* k + 1), and carries the loss the k-th step returned.
C13_ProgressMatchesStep ==
    [][\A t \in Threads :
          g'[t].emitted = g[t].emitted + 1
              => /\ w[t].pc = "update"
                 /\ g'[t].lastIter = g[t].calls
                 /\ g'[t].calls = g[t].calls
                 /\ w[t].opt.num_steps = g[t].calls
                 /\ g'[t].lastLoss = g[t].stepLoss
                 /\ w'[t].pc # "step"]_vars

\* C13, its case: the event of the second iteration was sent, with the loss
\* of the second step, which differs from the loss of the first.
C13_Witness ==
    \E t \in Threads :
        /\ g[t].emitted = 2
        /\ g[t].lastIter = 2
        /\ g[t].lastLoss = 1
        /\ w[t].opt.best_loss = 0
        /\ w[t].pc = "check"

\* C14: the loss recorded with the best discrete solution never increases
\* from one step of the optimization to the next, and it changes only to
\* the loss of a step that is strictly lower than the best known one.
C14_BestLossNonIncreasing ==
    [][\A t \in Threads :
          /\ w'[t].opt.best_loss <= w[t].opt.best_loss
          /\ w'[t].opt.best_loss # w[t].opt.best_loss
                 => /\ w[t].pc = "step"
                    /\ w'[t].opt.best_loss = g'[t].stepLoss
                    /\ g'[t].stepLoss < w[t].opt.best_loss]_vars

\* C14, its case: a later step returned a higher loss than the recorded
\* best one, which was kept.
C14_Witness ==
    \E t \in Threads :
        /\ w[t].opt.num_steps >= 2
        /\ w[t].pc = "update"
        /\ w[t].loss > w[t].opt.best_loss

StartRejected ==
    {Reply(400, "Invalid job ID"), Reply(400, "Job already started or completed")}

\* C15: a worker thread is created only by a start request for a known job
\* whose status is 'uploaded', and a start request answered with an error
\* (400) creates no thread and leaves every job record unchanged.
C15_StartOnlyWhenUploaded ==
    [][/\ \A t \in Threads :
              w[t].pc = "idle" /\ w'[t].pc # "idle"
                  => /\ w'[t].job \in DOMAIN active_jobs
                     /\ active_jobs[w'[t].job].status = "uploaded"
                     /\ response' = Reply(200, "Optimization started")
       /\ response' \in StartRejected /\ response' # response
              => active_jobs' = active_jobs /\ w' = w]_vars

\* C15, its case: a start request for a running job was refused.
C15_Witness ==
    /\ response = Reply(400, "Job already started or completed")
    /\ \E j \in DOMAIN active_jobs :
           /\ active_jobs[j].status = "running"
           /\ active_jobs[j].progress > 0
    /\ \E t \in Threads : w[t].pc = "check" /\ w[t].opt.num_steps >= 1

\* C16: the update of the last iteration is never dropped by the throttle:
\* a worker that left the loop at its end (no step failed, no cancel seen)
\* has emitted an update with iteration = total_iterations, with a preview
\* image, and the job records it, whatever the time since the previous event.
C16_LastUpdateNeverDropped ==
    \A t \in Threads :
        (w[t].pc \in {"outputs", "set_status", "set_progress", "set_outputs"}
            /\ w[t].error = "None")
            => /\ g[t].lastIter = w[t].iterations
               /\ g[t].lastPreview
               /\ <<"progress", w[t].job>> \in events
               /\ JobOf(t).iteration = w[t].iterations
               /\ JobOf(t).progress = 100

\* C16, its case: the last update came less than update_interval after the
\* previous event, in a run where an earlier update was dropped.
C16_Witness ==
    \E t \in Threads :
        /\ w[t].pc = "outputs"
        /\ w[t].iterations >= 3
        /\ g[t].lastIter = w[t].iterations
        /\ g[t].gap < update_interval
        /\ g[t].emitted < w[t].iterations
        /\ ~JobOf(t).cancelled

\* the worker threads ever started for job j
WorkersOf(j) == {t \in Threads : w[t].pc # "idle" /\ w[t].job = j}

\* C17: at most one worker thread is ever started for a job id, whatever the
\* interleaving of start requests and worker steps.
C17_OneWorkerPerJob ==
    \A j \in JobIds : Cardinality(WorkersOf(j)) <= 1

\* C18: once a cancel request for a job has been acknowledged (its cancelled
\* flag is set), no later step sets the job's status to 'completed' and no
\* later step gives it outputs.
C18_NoCompletionAfterCancel ==
    [][\A j \in DOMAIN active_jobs :
          active_jobs[j].cancelled
              => /\ active_jobs'[j].status # "completed"
                 /\ active_jobs[j].outputs = None
                        => active_jobs'[j].outputs = None]_vars

\* C19: in every reachable state a job whose status is 'completed' has
\* progress 100 and an outputs record.
C19_CompletedIsWhole ==
    \A j \in DOMAIN active_jobs :
        active_jobs[j].status = "completed"
            => /\ active_jobs[j].progress = 100
               /\ active_jobs[j].outputs # None

\* C20: the progress recorded on a job is within 0..100 and no step of any
\* handler or worker lowers it.
C20_ProgressMonotone ==
    /\ [](\A j \in DOMAIN active_jobs : active_jobs[j].progress \in 0..100)
    /\ [][\A j \in DOMAIN active_jobs :
              active_jobs'[j].progress >= active_jobs[j].progress]_vars

=============================================================================
